---- MODULE Spec2Model ----
(***************************************************************************)
(* The savings ledger of backend/app.py and backend/models.py: the         *)
(* transactions table, the login session, the update_account and           *)
(* get_history handlers and the balance queries of Transaction.            *)
(*                                                                         *)
(* Money is an integer number of hundredths (the NUMERIC(15,2) column); a  *)
(* Python Decimal is its sign, coefficient and exponent.  A request string *)
(* that the code inspects character by character (the amount, the limit)   *)
(* is a tuple of one-character strings.                                    *)
(***************************************************************************)
EXTENDS Integers, Sequences, FiniteSets, TLC

VARIABLES
    transactions,   \* rows of the transactions table, in insertion order
    session,        \* id of the user the session cookie authenticates, 0 if none
    clock,          \* what datetime.now() returns
    request,        \* the request the last handler served (and where the
                    \* database raised while serving it)
    response        \* the response it returned

vars == <<transactions, session, clock, request, response>>

----------------------------------------------------------------------------
(* Bounds *)

MaxTx == 3          \* rows the table may hold, the ledger and the history
MaxKindTx == 2      \* rows the table may hold, the kinds
MaxAmountTx == 2    \* rows the table may hold, the amounts
MaxClock == 2       \* last value of the clock
MaxFaultTx == 2     \* rows the table may hold, the faults
MaxOverlapTx == 2   \* rows the table may hold, the overlapping requests
MaxDateTx == 2      \* rows the table may hold, the dates
MaxAuthTx == 2      \* rows the table may hold, the sessions

----------------------------------------------------------------------------
(* JSON values of a request body, query-string values *)

Absent == [t |-> "absent"]
Str(s) == [t |-> "str", s |-> s]
Num(n) == [t |-> "num", n |-> n]

\* dict.get(key, default)
get(data, key, default) ==
    IF data[key].t = "absent" THEN default ELSE data[key]

\* Python truthiness of a JSON string (text or character tuple) or number
truthy(v) ==
    CASE v.t = "str" -> Len(v.s) > 0
      [] v.t = "num" -> v.n # 0
      [] OTHER -> FALSE

----------------------------------------------------------------------------
(* Strings and decimals *)

Digits == {"0", "1", "2", "3", "4", "5", "6", "7", "8", "9"}

DigitVal(c) ==
    CASE c = "0" -> 0 [] c = "1" -> 1 [] c = "2" -> 2 [] c = "3" -> 3
      [] c = "4" -> 4 [] c = "5" -> 5 [] c = "6" -> 6 [] c = "7" -> 7
      [] c = "8" -> 8 [] c = "9" -> 9

RECURSIVE Pow10(_)
Pow10(n) == IF n = 0 THEN 1 ELSE 10 * Pow10(n - 1)

\* the value of a digit string, most significant digit first
RECURSIVE DigitsVal(_)
DigitsVal(s) ==
    IF s = <<>> THEN 0
    ELSE 10 * DigitsVal(SubSeq(s, 1, Len(s) - 1)) + DigitVal(s[Len(s)])

\* replace gone wrong: only the first occurrence goes
replace_first(s, old) ==
    IF \E i \in 1..Len(s) : s[i] = old
    THEN LET i == CHOOSE i \in 1..Len(s) :
                      s[i] = old /\ \A j \in 1..(i - 1) : s[j] # old
         IN  SubSeq(s, 1, i - 1) \o SubSeq(s, i + 1, Len(s))
    ELSE s

\* str.replace(old, ''): every occurrence of the character goes
RECURSIVE replace(_, _)
replace(s, old) ==
    IF s = <<>> THEN <<>>
    ELSE IF Head(s) = old THEN replace(Tail(s), old)
    ELSE <<Head(s)>> \o replace(Tail(s), old)

\* Decimal(s) for a string of digits, signs, points and other characters:
\* [sign] digits [. [digits]]  or  [sign] . digits ; anything else raises
\* InvalidOperation (ok = FALSE).  The value is (-1)^sign * coef * 10^exp.
Decimal(s) ==
    LET signed == s # <<>> /\ Head(s) \in {"+", "-"}
        body   == IF signed THEN Tail(s) ELSE s
        points == {i \in 1..Len(body) : body[i] = "."}
        digs   == SelectSeq(body, LAMBDA c : c \in Digits)
        wellformed ==
            /\ \A i \in 1..Len(body) : body[i] \in Digits \cup {"."}
            /\ Cardinality(points) <= 1
            /\ Len(digs) >= 1
        point  == CHOOSE i \in points : TRUE
    IN  IF ~wellformed THEN [ok |-> FALSE, sign |-> 0, coef |-> 0, exp |-> 0]
        ELSE [ok   |-> TRUE,
              sign |-> IF signed /\ Head(s) = "-" THEN 1 ELSE 0,
              coef |-> DigitsVal(digs),
              exp  |-> IF points = {} THEN 0 ELSE 0 - (Len(body) - point)]

\* the amount test gone wrong: zero passes
amount_lt_zero(d) == d.sign = 1 /\ d.coef # 0

\* amount_decimal <= 0
amount_le_zero(d) == d.sign = 1 \/ d.coef = 0

\* digits the NUMERIC(15,2) column holds, and how many of them are fractional
NumericPrecision == 15
NumericScale == 2

\* the hundredths a positive Decimal becomes in a NUMERIC(15,2) column: the
\* database rounds to the scale, ties away from zero
numeric_round(d) ==
    IF d.exp >= 0 - NumericScale
    THEN d.coef * Pow10(NumericScale + d.exp)
    ELSE LET q == Pow10(0 - d.exp - NumericScale)
         IN  (2 * d.coef + q) \div (2 * q)

\* the decimal digits of a natural number
RECURSIVE digit_count(_)
digit_count(n) == IF n < 10 THEN 1 ELSE 1 + digit_count(n \div 10)

\* the column refuses a value of more than 15 digits ("numeric field overflow")
numeric_overflow(cents) == digit_count(cents) > NumericPrecision

----------------------------------------------------------------------------
(* models.py: the Transaction queries.  rows is the committed table. *)

\* Transaction.query.filter_by(user_id=user_id).all()
filter_by_user(rows, user_id) ==
    SelectSeq(rows, LAMBDA t : t.user_id = user_id)

\* Transaction.query.filter_by(user_id=user_id, account_name=account_name).all()
filter_by_user_account(rows, user_id, account_name) ==
    SelectSeq(rows, LAMBDA t : t.user_id = user_id /\ t.account_name = account_name)

\* the loop gone wrong: a row that is not 'add' leaves the balance as it was
RECURSIVE balance_loop_adds_only(_, _)
balance_loop_adds_only(ts, balance) ==
    IF ts = <<>> THEN balance
    ELSE balance_loop_adds_only(Tail(ts),
                                IF Head(ts).transaction_type = "add"
                                THEN balance + Head(ts).amount
                                ELSE balance)

\* the loop of get_balance_for_account and get_total_balance
RECURSIVE balance_loop(_, _)
balance_loop(ts, balance) ==
    IF ts = <<>> THEN balance
    ELSE balance_loop(Tail(ts),
                      IF Head(ts).transaction_type = "add"
                      THEN balance + Head(ts).amount
                      ELSE balance - Head(ts).amount)

get_balance_for_account(rows, user_id, account_name) ==
    balance_loop(filter_by_user_account(rows, user_id, account_name), 0)

\* get_total_balance gone wrong: a row that is neither 'add' nor 'subtract'
\* is left out of the total
get_total_balance_known_kinds(rows, user_id) ==
    balance_loop(SelectSeq(filter_by_user(rows, user_id),
                           LAMBDA t : t.transaction_type \in {"add", "subtract"}), 0)

get_total_balance(rows, user_id) ==
    balance_loop(filter_by_user(rows, user_id), 0)

\* the distinct query gone wrong: the owner filter is lost
distinct_account_names_any_user(rows, user_id) ==
    {rows[i].account_name : i \in 1..Len(rows)}

\* db.session.query(Transaction.account_name).filter_by(user_id=...).distinct()
distinct_account_names(rows, user_id) ==
    {rows[i].account_name : i \in {j \in 1..Len(rows) : rows[j].user_id = user_id}}

get_account_balances(rows, user_id) ==
    [account_name \in distinct_account_names(rows, user_id) |->
        get_balance_for_account(rows, user_id, account_name)]

\* Transaction.to_dict
to_dict(t) ==
    [id |-> t.id, account_name |-> t.account_name,
     transaction_type |-> t.transaction_type, amount |-> t.amount,
     note |-> t.note, transaction_date |-> t.transaction_date]

\* ts without its i-th row
without(ts, i) == SubSeq(ts, 1, i - 1) \o SubSeq(ts, i + 1, Len(ts))

\* the ordering gone wrong: oldest first
RECURSIVE order_by_date_asc(_)
order_by_date_asc(ts) ==
    IF ts = <<>> THEN {<<>>}
    ELSE LET first == {i \in 1..Len(ts) : \A j \in 1..Len(ts) :
                          ts[i].transaction_date <= ts[j].transaction_date}
         IN  UNION {{<<ts[i]>> \o rest : rest \in order_by_date_asc(without(ts, i))} :
                      i \in first}

\* order_by(Transaction.transaction_date.desc()): every order the database may
\* return; rows of one date come in any order
RECURSIVE order_by_date_desc(_)
order_by_date_desc(ts) ==
    IF ts = <<>> THEN {<<>>}
    ELSE LET first == {i \in 1..Len(ts) : \A j \in 1..Len(ts) :
                          ts[i].transaction_date >= ts[j].transaction_date}
         IN  UNION {{<<ts[i]>> \o rest : rest \in order_by_date_desc(without(ts, i))} :
                      i \in first}

\* .limit(limit)
limit_rows(ts, limit) ==
    SubSeq(ts, 1, IF limit < Len(ts) THEN limit ELSE Len(ts))

\* the results get_transaction_history may return; account_name is None
\* (Absent) or a string
get_transaction_history(rows, user_id, account_name, limit) ==
    LET query == IF truthy(account_name)
                 THEN filter_by_user_account(rows, user_id, account_name.s)
                 ELSE filter_by_user(rows, user_id)
    IN  {limit_rows(ts, limit) : ts \in order_by_date_desc(query)}

----------------------------------------------------------------------------
(* app.py: the users table, the session, the clock *)

\* init_db.py: the single user, whose id verify_password looks up
UserId == 1
Password == "Omoadu07."

generate_password_hash(password) == <<"hash", password>>

\* the password check gone wrong: every password passes
check_password_hash_any(pwhash, password) == TRUE

check_password_hash(pwhash, password) == pwhash = generate_password_hash(password)

\* the users table: id -> password_hash
users == [id \in {UserId} |-> generate_password_hash(Password)]

\* datetime.fromisoformat(s.replace('Z', '+00:00')) on the date strings of the
\* model: the instant a well-formed string names, ValueError (ok = FALSE) otherwise
fromisoformat(s) ==
    CASE s = "2024-01-01T09:00:00"  -> [ok |-> TRUE, at |-> 1]
      [] s = "2024-01-02T09:00:00Z" -> [ok |-> TRUE, at |-> 2]
      [] OTHER                      -> [ok |-> FALSE, at |-> 0]

NoRequest == [op |-> "none"]
NoResponse == [op |-> "none", status |-> 0]

Init ==
    /\ transactions = <<>>
    /\ session = 0
    /\ clock = 1
    /\ request = NoRequest
    /\ response = NoResponse

\* time passes
Tick ==
    /\ clock < MaxClock
    /\ clock' = clock + 1
    /\ UNCHANGED <<transactions, session, request, response>>

\* login_manager.unauthorized_handler
unauthorized(op) ==
    [op |-> op, status |-> 401, message |-> "Authentication required. Please log in."]

\* POST /auth/verify
verify_password(data) ==
    LET password == get(data, "password", Str("")) IN
    /\ request' = [op |-> "verify_password", data |-> data]
    /\ IF password.t # "str"
       THEN \* len(password) raises TypeError: the except clause answers
            /\ response' = [op |-> "verify_password", status |-> 500,
                            message |-> "Server error occurred"]
            /\ UNCHANGED session
       ELSE IF UserId \notin DOMAIN users
       THEN /\ response' = [op |-> "verify_password", status |-> 401,
                            message |-> "Authentication failed"]
            /\ UNCHANGED session
       ELSE IF check_password_hash(users[UserId], password.s)
       THEN /\ session' = UserId
            /\ response' = [op |-> "verify_password", status |-> 200,
                            message |-> "Authentication successful"]
       ELSE /\ response' = [op |-> "verify_password", status |-> 401,
                            message |-> "Invalid password"]
            /\ UNCHANGED session
    /\ UNCHANGED <<transactions, clock>>

\* POST /auth/logout
logout ==
    /\ request' = [op |-> "logout"]
    /\ IF session = 0
       THEN /\ response' = unauthorized("logout")
            /\ UNCHANGED session
       ELSE /\ session' = 0
            /\ response' = [op |-> "logout", status |-> 200,
                            message |-> "Logged out successfully"]
    /\ UNCHANGED <<transactions, clock>>

\* the insert gone wrong: the new row takes the place of the newest one
add_commit_overwrite(rows, new_transaction) ==
    IF rows = <<>> THEN <<new_transaction>>
    ELSE SubSeq(rows, 1, Len(rows) - 1)
            \o <<[new_transaction EXCEPT !.id = Len(rows)]>>

\* db.session.add(new_transaction); db.session.commit()
add_commit(rows, new_transaction) == Append(rows, new_transaction)

\* the rollback gone wrong: the pending row reaches the table
rollback_flushed(rows, new_transaction) == Append(rows, new_transaction)

\* db.session.rollback(): the pending row is dropped, the table is as it was
rollback(rows, new_transaction) == rows

\* the response of a handler's outer except clause
server_error(op, message) == [op |-> op, status |-> 500, message |-> message]

bad_request(message) == [op |-> "update_account", status |-> 400, message |-> message]

\* The body of update_account for an authenticated user: the table and the
\* response it leaves.  fault says where the database raises: "none", at the
\* "commit", or at the balance "query" that follows it.
update_account_body(rows, user_id, now, data, fault) ==
    LET account_name     == get(data, "accountName", Str(""))
        amount_str       == get(data, "amount", Str(<<>>))
        note             == get(data, "note", Str(""))
        date_time_str    == get(data, "dateTime", Str(""))
        transaction_type == get(data, "transactionType", Str("add"))
        failed           == server_error("update_account", "Failed to update account")
    IN
    IF ~truthy(account_name) \/ ~truthy(amount_str)
    THEN [rows |-> rows, response |-> bad_request("Account name and amount are required")]
    ELSE IF amount_str.t # "str"
    THEN \* amount_str.replace raises AttributeError: the outer except answers
         [rows |-> rows, response |-> failed]
    ELSE
    LET amount_cleaned == replace(amount_str.s, ",")
        amount_decimal == Decimal(amount_cleaned)
    IN
    IF ~amount_decimal.ok
    THEN [rows |-> rows, response |-> bad_request("Invalid amount format")]
    ELSE IF amount_le_zero(amount_decimal)
    THEN [rows |-> rows, response |-> bad_request("Amount must be greater than zero")]
    ELSE IF truthy(date_time_str) /\ date_time_str.t # "str"
    THEN \* date_time_str.replace raises AttributeError
         [rows |-> rows, response |-> failed]
    ELSE
    LET parsed == fromisoformat(date_time_str.s)
        transaction_date ==
            IF truthy(date_time_str) /\ parsed.ok THEN parsed.at ELSE now
        stored_amount == numeric_round(amount_decimal)
        new_transaction ==
            [id               |-> Len(rows) + 1,
             user_id          |-> user_id,
             account_name     |-> account_name.s,
             transaction_type |-> transaction_type.s,
             amount           |-> stored_amount,
             note             |-> note.s,
             transaction_date |-> transaction_date]
        committed == add_commit(rows, new_transaction)
    IN
    IF fault = "commit" \/ numeric_overflow(stored_amount)
    THEN \* the commit raises; db.session.rollback()
         [rows |-> rollback(rows, new_transaction), response |-> failed]
    ELSE IF fault = "query"
    THEN \* the row is committed; get_balance_for_account raises
         [rows |-> committed, response |-> failed]
    ELSE [rows |-> committed,
          response |->
            [op |-> "update_account", status |-> 200,
             message |-> IF transaction_type.s = "add" THEN "added" ELSE "subtracted",
             accountName |-> account_name.s,
             transactionType |-> transaction_type.s,
             dateTime |-> transaction_date,
             newBalance |-> get_balance_for_account(committed, user_id, account_name.s)]]

\* POST /account/update
update_account(data, fault) ==
    /\ request' = [op |-> "update_account", data |-> data, fault |-> fault]
    /\ IF session = 0
       THEN /\ response' = unauthorized("update_account")
            /\ UNCHANGED transactions
       ELSE LET done == update_account_body(transactions, session, clock, data, fault)
            IN  /\ transactions' = done.rows
                /\ response' = done.response
    /\ UNCHANGED <<session, clock>>

\* request.args.get('limit', 50, type=int) for an unsigned value: the default
\* when the value is absent or int() refuses it
DefaultLimit == 50

args_get_int(args, key, default) ==
    IF args[key].t = "absent" THEN default
    ELSE IF args[key].s # <<>> /\ \A i \in 1..Len(args[key].s) : args[key].s[i] \in Digits
    THEN DigitsVal(args[key].s)
    ELSE default

\* GET /account/history
get_history(args) ==
    /\ request' = [op |-> "get_history", args |-> args]
    /\ IF session = 0
       THEN response' = unauthorized("get_history")
       ELSE LET account_name == args.account
                limit == args_get_int(args, "limit", DefaultLimit)
            IN  \E found \in get_transaction_history(transactions, session,
                                                     account_name, limit) :
                    response' =
                        [op |-> "get_history", status |-> 200,
                         transactions |-> [i \in 1..Len(found) |-> to_dict(found[i])],
                         accountBalances |-> get_account_balances(transactions, session),
                         totalBalance |-> get_total_balance(transactions, session)]
    /\ UNCHANGED <<transactions, session, clock>>

----------------------------------------------------------------------------
(* app.py under gunicorn's workers: a get_history served query by query while
   other requests of the same session are served by other workers.  Each
   query reads the rows committed when it runs.  request and response are
   those of the get_history; a response of status 0 is one still being
   built, pc naming the query to come. *)

in_progress == response.op = "get_history" /\ response.status = 0

\* get_history up to Transaction.get_transaction_history
get_history_transactions(args) ==
    /\ ~in_progress
    /\ request' = [op |-> "get_history", args |-> args]
    /\ IF session = 0
       THEN response' = unauthorized("get_history")
       ELSE LET account_name == args.account
                limit == args_get_int(args, "limit", DefaultLimit)
            IN  \E found \in get_transaction_history(transactions, session,
                                                     account_name, limit) :
                    response' =
                        [op |-> "get_history", status |-> 0, pc |-> "account_balances",
                         user_id |-> session,
                         transactions |-> [i \in 1..Len(found) |-> to_dict(found[i])]]
    /\ UNCHANGED <<transactions, session, clock>>

\* get_history: Transaction.get_account_balances
get_history_account_balances ==
    /\ in_progress
    /\ response.pc = "account_balances"
    /\ response' =
          [op |-> "get_history", status |-> 0, pc |-> "total_balance",
           user_id |-> response.user_id,
           transactions |-> response.transactions,
           accountBalances |-> get_account_balances(transactions, response.user_id)]
    /\ UNCHANGED <<transactions, session, clock, request>>

\* get_history: Transaction.get_total_balance, and the answer
get_history_total_balance ==
    /\ in_progress
    /\ response.pc = "total_balance"
    /\ response' =
          [op |-> "get_history", status |-> 200,
           transactions |-> response.transactions,
           accountBalances |-> response.accountBalances,
           totalBalance |-> get_total_balance(transactions, response.user_id)]
    /\ UNCHANGED <<transactions, session, clock, request>>

\* POST /account/update served by another worker: its answer goes to its own
\* caller, the table is the one all workers share
update_account_overlapping(data) ==
    /\ IF session = 0
       THEN UNCHANGED transactions
       ELSE transactions'
              = update_account_body(transactions, session, clock, data, "none").rows
    /\ UNCHANGED <<session, clock, request, response>>

----------------------------------------------------------------------------
(* The requests of the model *)

\* the JSON body of POST /account/update
Body(accountName, amount, dateTime, transactionType) ==
    [accountName |-> accountName, amount |-> amount, note |-> Absent,
     dateTime |-> dateTime, transactionType |-> transactionType]

Passwords == {[password |-> Str(Password)], [password |-> Str("guess")]}

A100 == <<"1", "0", "0", ".", "0", "0">>
A30 == <<"3", "0", ".", "0", "0">>
A50 == <<"5", "0", ".", "0", "0">>
AComma == <<"1", ",", "2", "3", "4", ".", "5", "0">>
APlain == <<"1", "2", "3", "4", ".", "5", "0">>

\* the ledger: two accounts, three amounts, money in and out
LedgerBodies ==
    {Body(Str(a), Str(m), Absent, Str(k)) :
        a \in {"Savings", "Piggy"},
        m \in {A100, A30, A50},
        k \in {"add", "subtract"}}

\* the balances alone: a history of no rows
BalancesArgs == [account |-> Absent, limit |-> Str(<<"0">>)]

\* the kinds: two accounts, two amounts, every transactionType
KindBodies ==
    {Body(Str(a), Str(m), Absent, k) :
        a \in {"Savings", "Piggy"},
        m \in {A100, A30},
        k \in {Absent, Str("add"), Str("subtract"), Str("transfer")}}

\* the amounts: the characters an amount is made of, in strings of one and two,
\* and the strings and numbers the handler has a case for
AmountAlphabet == {"5", "0", ",", ".", "-"}

AmountStrings ==
    {<<a>> : a \in AmountAlphabet}
    \cup {<<a, b>> : a, b \in AmountAlphabet}
    \cup {AComma, APlain,
          <<>>, <<"a", "b", "c">>, <<"1", ",", "0">>, <<"5", ",", ",", "5">>,
          <<"1", ".", "2", ".", "3">>, <<"+", "5">>, <<"-", "0", ".", "5">>,
          <<"0", ".", "0", "0">>, <<"0", ".", "0", "0", "1">>,
          <<"0", ".", "0", "0", "5">>}

AmountValues ==
    {Str(m) : m \in AmountStrings} \cup {Num(100), Num(0), Absent}

AmountBodies ==
    {Body(a, m, Absent, Absent) :
        a \in {Str("Savings"), Str(""), Absent}, m \in AmountValues}

\* the history: two accounts, one amount, dated now or by the caller, every
\* filter and limit
HistoryBodies ==
    {Body(Str(a), Str(A100), d, Absent) :
        a \in {"Savings", "Piggy"},
        d \in {Absent, Str("2024-01-01T09:00:00")}}

HistoryArgs ==
    {[account |-> a, limit |-> l] :
        a \in {Absent, Str(""), Str("Savings")},
        l \in {Absent, Str(<<"1">>), Str(<<"2">>)}}
    \cup {[account |-> Absent, limit |-> Str(<<"a">>)]}

\* the faults: where the database may raise, and well-formed bodies
Faults == {"none", "commit", "query"}

FaultBodies ==
    {Body(Str(a), Str(m), Absent, Str(k)) :
        a \in {"Savings", "Piggy"}, m \in {A100, A30}, k \in {"add", "subtract"}}

FaultArgs == [account |-> Absent, limit |-> Absent]

\* the overlapping requests: money in and out of two accounts, the history
\* of all accounts and of one
OverlapBodies ==
    {Body(Str(a), Str(m), Absent, Str(k)) :
        a \in {"Savings", "Piggy"}, m \in {A100, A30}, k \in {"add", "subtract"}}

OverlapArgs ==
    {[account |-> a, limit |-> Absent] : a \in {Absent, Str("Savings")}}

\* the dates: a dateTime absent, empty, well-formed, malformed, or a JSON
\* number (seconds since the epoch, or zero)
EpochSeconds == 1700000000

DateValues ==
    {Absent, Str(""), Str("yesterday"), Str("2024-01-01T09:00:00"),
     Str("2024-01-02T09:00:00Z"), Num(EpochSeconds), Num(0)}

DateBodies ==
    {Body(Str(a), Str(A100), d, Absent) : a \in {"Savings", "Piggy"}, d \in DateValues}

\* the sessions: the password, a wrong one, none, a number; money into two
\* accounts; the whole history
WrongNumber == 12345

AuthPasswords ==
    {[password |-> p] : p \in {Str(Password), Str("guess"), Absent, Num(WrongNumber)}}

AuthBodies ==
    {Body(Str(a), Str(m), Absent, Absent) : a \in {"Savings", "Piggy"}, m \in {A100, A30}}

AuthArgs == [account |-> Absent, limit |-> Absent]

----------------------------------------------------------------------------
(* Specifications *)

Login == \E data \in Passwords : verify_password(data)
Balances == get_history(BalancesArgs)

\* the ledger
LedgerUpdate ==
    /\ Len(transactions) < MaxTx
    /\ \E data \in LedgerBodies : update_account(data, "none")
Next == Login \/ LedgerUpdate \/ Balances
Spec == Init /\ [][Next]_vars

\* the kinds, logged in and out
KindUpdate ==
    /\ Len(transactions) < MaxKindTx
    /\ \E data \in KindBodies : update_account(data, "none")
Logout == logout
KindNext == Login \/ Logout \/ KindUpdate \/ Balances
KindSpec == Init /\ [][KindNext]_vars

\* the amounts
AmountUpdate ==
    /\ Len(transactions) < MaxAmountTx
    /\ \E data \in AmountBodies : update_account(data, "none")
AmountNext == Login \/ AmountUpdate \/ Balances
AmountSpec == Init /\ [][AmountNext]_vars

\* the history
HistoryUpdate ==
    /\ Len(transactions) < MaxTx
    /\ \E data \in HistoryBodies : update_account(data, "none")
HistoryQuery == \E args \in HistoryArgs : get_history(args)
HistoryNext == Login \/ Tick \/ HistoryUpdate \/ HistoryQuery
HistorySpec == Init /\ [][HistoryNext]_vars

\* the faults
FaultUpdate ==
    /\ Len(transactions) < MaxFaultTx
    /\ \E data \in FaultBodies, fault \in Faults : update_account(data, fault)
FaultHistory == get_history(FaultArgs)
FaultNext == Login \/ FaultUpdate \/ FaultHistory
FaultSpec == Init /\ [][FaultNext]_vars

\* the overlapping requests
OverlapLogin == ~in_progress /\ Login
OverlapUpdate ==
    /\ Len(transactions) < MaxOverlapTx
    /\ \E data \in OverlapBodies : update_account_overlapping(data)
OverlapHistory == \E args \in OverlapArgs : get_history_transactions(args)
OverlapBalances == get_history_account_balances
OverlapTotal == get_history_total_balance
OverlapNext ==
    OverlapLogin \/ OverlapUpdate \/ OverlapHistory \/ OverlapBalances \/ OverlapTotal
OverlapSpec == Init /\ [][OverlapNext]_vars

\* the dates
DateUpdate ==
    /\ Len(transactions) < MaxDateTx
    /\ \E data \in DateBodies : update_account(data, "none")
DateNext == Login \/ Tick \/ DateUpdate \/ Balances
DateSpec == Init /\ [][DateNext]_vars

\* the sessions
AuthLogin == \E data \in AuthPasswords : verify_password(data)
AuthLogout == logout
AuthUpdate ==
    /\ Len(transactions) < MaxAuthTx
    /\ \E data \in AuthBodies : update_account(data, "none")
AuthHistory == get_history(AuthArgs)
AuthNext == AuthLogin \/ AuthLogout \/ AuthUpdate \/ AuthHistory
AuthSpec == Init /\ [][AuthNext]_vars

----------------------------------------------------------------------------
(* What the properties speak of *)

Owners == {UserId, UserId + 1}
AccountNames == {"Savings", "Piggy", "Other"}

\* the rows of an owner's account, by position in the table
RowsOf(owner, account) ==
    {i \in 1..Len(transactions) :
        /\ transactions[i].user_id = owner
        /\ transactions[i].account_name = account}

\* the sum of the amounts of the rows at the positions I
RECURSIVE AmountSum(_)
AmountSum(I) ==
    IF I = {} THEN 0
    ELSE LET i == CHOOSE i \in I : TRUE
         IN  transactions[i].amount + AmountSum(I \ {i})

\* the sum of an owner's balances over the account names S
RECURSIVE BalanceSum(_, _)
BalanceSum(owner, S) ==
    IF S = {} THEN 0
    ELSE LET a == CHOOSE a \in S : TRUE
         IN  get_balance_for_account(transactions, owner, a)
                + BalanceSum(owner, S \ {a})

StripCommas(s) == SelectSeq(s, LAMBDA c : c # ",")

\* the step is a handler's: it serves a request of the kind op
Serves(op) ==
    /\ request'.op = op
    /\ response'.op = op
    /\ <<transactions, session, request, response>>'
          # <<transactions, session, request, response>>

\* the served request was an update_account of a logged-in user
ServedUpdate ==
    /\ request.op = "update_account"
    /\ response.op = "update_account"
    /\ response.status # 401

----------------------------------------------------------------------------
(* C1: the balance of an owner's account is the sum of the stored 'add'
   amounts minus the sum of the stored 'subtract' amounts of exactly that
   owner's rows of that account. *)
C1_BalanceIsAddsMinusSubtracts ==
    \A owner \in Owners, account \in AccountNames :
        get_balance_for_account(transactions, owner, account)
            = AmountSum({i \in RowsOf(owner, account) :
                            transactions[i].transaction_type = "add"})
              - AmountSum({i \in RowsOf(owner, account) :
                            transactions[i].transaction_type = "subtract"})

(* C2: an owner's total balance is the sum of the balances of the distinct
   account names the owner has rows for. *)
C2_TotalIsSumOfAccountBalances ==
    \A owner \in Owners :
        get_total_balance(transactions, owner)
            = BalanceSum(owner, {a \in AccountNames : RowsOf(owner, a) # {}})

C2_Witness ==
    /\ response.op = "get_history" /\ response.status = 200
    /\ RowsOf(UserId, "Savings") # {} /\ RowsOf(UserId, "Piggy") # {}
    /\ \E i \in 1..Len(transactions) : transactions[i].transaction_type = "transfer"
    /\ response.totalBalance = get_total_balance(transactions, UserId)
    /\ response.totalBalance # 0

(* C3: an update_account whose amount parses to a value <= 0 is answered 400
   and leaves the table as it was, however often it is repeated. *)
ParsesNonPositive(amount) ==
    /\ amount.t = "str"
    /\ LET d == Decimal(StripCommas(amount.s))
       IN  d.ok /\ (d.sign = 1 \/ d.coef = 0)

C3_NonPositiveAmountRejected ==
    [][(/\ session # 0
        /\ request'.op = "update_account"
        /\ ParsesNonPositive(request'.data.amount))
       => (/\ response'.op = "update_account"
           /\ response'.status = 400
           /\ transactions' = transactions)]_vars

C3_Witness ==
    /\ ServedUpdate
    /\ ParsesNonPositive(request.data.amount)
    /\ truthy(get(request.data, "accountName", Str("")))
    /\ response.status = 400
    /\ response.message = "Amount must be greater than zero"
    /\ Len(transactions) > 0

(* C4: every stored transaction has a stored amount greater than 0. *)
C4_StoredAmountsPositive ==
    \A i \in 1..Len(transactions) : transactions[i].amount > 0

(* C5: get_account_balances(owner) has one entry for each account name the
   owner has a row for and no other, each entry the balance of that account;
   Credit 100.00 and Debit 30.00 on "Savings", then Credit 50.00 on "Piggy",
   give Savings 70.00, Piggy 50.00 and a total of 120.00. *)
Shape(t) == <<t.user_id, t.account_name, t.transaction_type, t.amount>>

ExampleLedger ==
    /\ Len(transactions) = 3
    /\ Shape(transactions[1]) = <<UserId, "Savings", "add", 10000>>
    /\ Shape(transactions[2]) = <<UserId, "Savings", "subtract", 3000>>
    /\ Shape(transactions[3]) = <<UserId, "Piggy", "add", 5000>>

C5_AccountBalancesPerAccount ==
    /\ \A owner \in Owners :
        LET balances == get_account_balances(transactions, owner) IN
        /\ \A a \in AccountNames : a \in DOMAIN balances <=> RowsOf(owner, a) # {}
        /\ \A a \in DOMAIN balances :
            /\ RowsOf(owner, a) # {}
            /\ balances[a] = get_balance_for_account(transactions, owner, a)
    /\ (response.op = "get_history" /\ response.status = 200) =>
          response.accountBalances = get_account_balances(transactions, session)
    /\ ExampleLedger =>
        /\ get_account_balances(transactions, UserId)
              = [a \in {"Savings", "Piggy"} |-> IF a = "Savings" THEN 7000 ELSE 5000]
        /\ get_total_balance(transactions, UserId) = 12000

C5_Witness ==
    /\ ExampleLedger
    /\ response.op = "get_history" /\ response.status = 200
    /\ DOMAIN response.accountBalances = {"Savings", "Piggy"}
    /\ response.accountBalances["Savings"] = 7000
    /\ response.accountBalances["Piggy"] = 5000
    /\ response.totalBalance = 12000

(* C6: get_history returns rows of the session's user only, of the named
   account only when a name is given, newest transaction_date first, and
   min(limit, n) of the n matching rows, those of the latest dates; the limit
   is 50 when none is supplied. *)
Given(account) == account.t = "str" /\ account.s # ""

Matching(args) ==
    {i \in 1..Len(transactions) :
        /\ transactions[i].user_id = session
        /\ Given(args.account) => transactions[i].account_name = args.account.s}

IsNumeral(v) ==
    v.t = "str" /\ v.s # <<>> /\ \A i \in 1..Len(v.s) : v.s[i] \in Digits

AskedLimit(args) == IF args.limit.t = "absent" THEN 50 ELSE DigitsVal(args.limit.s)

Returned(i) ==
    \E k \in 1..Len(response.transactions) :
        response.transactions[k].id = transactions[i].id

C6_HistoryNewestFirstLimited ==
    (/\ request.op = "get_history"
     /\ response.op = "get_history"
     /\ response.status = 200
     /\ request.args.limit.t = "absent" \/ IsNumeral(request.args.limit))
    => LET found == response.transactions
           n     == Cardinality(Matching(request.args))
           limit == AskedLimit(request.args)
       IN  /\ Len(found) = IF limit < n THEN limit ELSE n
           /\ \A k \in 1..Len(found) :
                \E i \in Matching(request.args) :
                    /\ found[k].id = transactions[i].id
                    /\ found[k].account_name = transactions[i].account_name
                    /\ found[k].amount = transactions[i].amount
                    /\ found[k].transaction_date = transactions[i].transaction_date
           /\ \A k, l \in 1..Len(found) :
                /\ k # l => found[k].id # found[l].id
                /\ k < l => found[k].transaction_date >= found[l].transaction_date
           /\ \A i \in Matching(request.args) :
                ~Returned(i) =>
                    \A k \in 1..Len(found) :
                        found[k].transaction_date >= transactions[i].transaction_date

C6_Witness ==
    /\ request.op = "get_history" /\ response.op = "get_history"
    /\ response.status = 200
    /\ request.args = [account |-> Absent, limit |-> Str(<<"1">>)]
    /\ Len(transactions) = 3
    /\ transactions[1].transaction_date = 2
    /\ transactions[2].transaction_date = 1
    /\ transactions[3].transaction_date = 1
    /\ Len(response.transactions) = 1
    /\ response.transactions[1].id = 1

(* C7: every stored transaction's transaction_type is 'add' or 'subtract'. *)
C7_KindIsAddOrSubtract ==
    \A i \in 1..Len(transactions) :
        transactions[i].transaction_type \in {"add", "subtract"}

(* C8: a stored transaction stays stored with every field as it was, and a
   get_history leaves the table as it was. *)
C8_AppendOnly ==
    [][/\ Len(transactions') >= Len(transactions)
       /\ \A i \in 1..Len(transactions) : transactions'[i] = transactions[i]
       /\ response'.op = "get_history" => transactions' = transactions]_vars

C8_Witness ==
    /\ Len(transactions) = 3
    /\ \A i \in 1..3 : transactions[i].id = i
    /\ response.op = "get_history" /\ response.status = 200
    /\ Len(response.transactions) = 3

(* C9: an update_account with a missing or empty account name, a missing or
   empty amount, or an amount that is no decimal numeral string (a number
   included) is answered 400, never 500. *)
BadInput(data) ==
    \/ ~truthy(get(data, "accountName", Str("")))
    \/ data.amount.t = "absent"
    \/ data.amount.t = "num"
    \/ data.amount.t = "str" /\ ~Decimal(StripCommas(data.amount.s)).ok

C9_BadInputAnswered400 ==
    (ServedUpdate /\ BadInput(request.data)) => response.status = 400

(* C10: an amount string and the same string without its commas are parsed to
   the same value: the two requests store equal amounts and leave the same
   balance; "1,234.50" and "1234.50" both store 1234.50. *)
Outcome(amount) ==
    update_account_body(transactions, UserId, clock,
                        Body(Str("Savings"), Str(amount), Absent, Absent), "none")

C10_CommasDoNotChangeTheAmount ==
    /\ \A m \in AmountStrings :
        /\ Outcome(m).rows = Outcome(StripCommas(m)).rows
        /\ Outcome(m).response.status = Outcome(StripCommas(m)).response.status
        /\ Outcome(m).response.status = 200 =>
              Outcome(m).response.newBalance
                  = Outcome(StripCommas(m)).response.newBalance
    /\ (/\ ServedUpdate
        /\ response.status = 200
        /\ request.data.amount \in {Str(AComma), Str(APlain)})
       => transactions[Len(transactions)].amount = 123450

C10_Witness ==
    /\ ServedUpdate
    /\ response.status = 200
    /\ request.data.amount = Str(AComma)
    /\ Len(transactions) = 2
    /\ transactions[1].amount = 123450
    /\ transactions[2].amount = 123450
    /\ response.newBalance = 246900

(* C11: an update_account answered 200 appends exactly one row, the caller's;
   the newBalance it returns is the balance of the row's owner and account
   over the table after the commit, the new row included (the 'add' amounts
   less the 'subtract' amounts when the table holds no other kind), and is the balance
   before the call plus the row's amount for 'add', minus it for 'subtract';
   an amount of at most two decimals is stored as it was sent. *)
Appended == transactions'[Len(transactions')]

\* the hundredths a sent amount of at most two decimals comes to
SentHundredths(amount) ==
    LET d == Decimal(StripCommas(amount.s))
    IN  d.coef * Pow10(NumericScale + d.exp)

\* the balance the stored rows of an owner's account add up to
StoredBalance(owner, account) ==
    AmountSum({i \in RowsOf(owner, account) :
                  transactions[i].transaction_type = "add"})
    - AmountSum({i \in RowsOf(owner, account) :
                  transactions[i].transaction_type = "subtract"})

C11_UpdateReturnsBalanceAfterAppend ==
    [][(Serves("update_account") /\ response'.status = 200)
       => (/\ Len(transactions') = Len(transactions) + 1
           /\ SubSeq(transactions', 1, Len(transactions)) = transactions
           /\ Appended.user_id = session
           /\ Appended.account_name = request'.data.accountName.s
           /\ Appended.transaction_type
                  = get(request'.data, "transactionType", Str("add")).s
           /\ Decimal(StripCommas(request'.data.amount.s)).exp >= 0 - NumericScale
                  => Appended.amount = SentHundredths(request'.data.amount)
           /\ \A a \in AccountNames :
                Appended.account_name = a =>
                    /\ response'.newBalance
                          = get_balance_for_account(transactions, session, a)'
                    /\ C7_KindIsAddOrSubtract' =>
                          response'.newBalance = StoredBalance(session, a)'
           /\ Appended.transaction_type = "add" =>
                response'.newBalance
                    = get_balance_for_account(transactions, session,
                                              Appended.account_name)
                      + Appended.amount
           /\ Appended.transaction_type = "subtract" =>
                response'.newBalance
                    = get_balance_for_account(transactions, session,
                                              Appended.account_name)
                      - Appended.amount)]_vars

C11_Witness ==
    /\ ServedUpdate
    /\ response.status = 200
    /\ Len(transactions) = 3
    /\ Shape(transactions[1]) = <<UserId, "Savings", "add", 10000>>
    /\ Shape(transactions[2]) = <<UserId, "Piggy", "add", 5000>>
    /\ Shape(transactions[3]) = <<UserId, "Savings", "subtract", 3000>>
    /\ request.data.amount = Str(A30)
    /\ response.newBalance = 7000

(* C12: an update_account whose commit raises is answered as failed (500)
   and leaves the table as it was, so that every balance and every history
   read afterwards is what it was before the request: no row of the request
   is stored. *)
Reads(rows) ==
    [balances |-> [owner \in Owners |-> get_account_balances(rows, owner)],
     totals   |-> [owner \in Owners |-> get_total_balance(rows, owner)],
     history  |-> [owner \in Owners |->
                      get_transaction_history(rows, owner, Absent, DefaultLimit)]]

C12_FailedWriteLeavesNoRow ==
    [][(/\ Serves("update_account")
        /\ session # 0
        /\ request'.fault = "commit")
       => (/\ response'.status = 500
           /\ response'.message = "Failed to update account"
           /\ transactions' = transactions
           /\ Reads(transactions') = Reads(transactions))]_vars

C12_Witness ==
    /\ ServedUpdate
    /\ request.fault = "commit"
    /\ request.data.accountName = Str("Piggy")
    /\ response.status = 500
    /\ Len(transactions) = 1
    /\ transactions[1].account_name = "Savings"
    /\ get_account_balances(transactions, UserId) = [a \in {"Savings"} |-> 10000]

(* C13: a get_history answered 200 while update_account requests of other
   workers commit shows one snapshot of the table: its totalBalance is the sum
   of the values of its accountBalances, and the account of every transaction
   it returns is a key of its accountBalances. *)
RECURSIVE MappingSum(_, _)
MappingSum(f, S) ==
    IF S = {} THEN 0
    ELSE LET a == CHOOSE a \in S : TRUE
         IN  f[a] + MappingSum(f, S \ {a})

C13_HistoryIsOneSnapshot ==
    (response.op = "get_history" /\ response.status = 200)
    => /\ response.totalBalance
             = MappingSum(response.accountBalances, DOMAIN response.accountBalances)
       /\ \A k \in 1..Len(response.transactions) :
             response.transactions[k].account_name \in DOMAIN response.accountBalances

(* C14: an update_account with a good account name and amount whose dateTime
   is absent, empty, or no timestamp that can be parsed is answered 200 and
   stores one row dated with the time of the request. *)
IsTimestamp(v) == v.t = "str" /\ fromisoformat(v.s).ok

GoodAccountAndAmount(data) ==
    ~BadInput(data) /\ ~ParsesNonPositive(data.amount)

C14_UnparsableDateDefaultsToNow ==
    [][(/\ Serves("update_account")
        /\ session # 0
        /\ GoodAccountAndAmount(request'.data)
        /\ ~IsTimestamp(request'.data.dateTime))
       => (/\ response'.status = 200
           /\ Len(transactions') = Len(transactions) + 1
           /\ Appended.transaction_date = clock
           /\ response'.dateTime = clock)]_vars

(* C15: on one session, the session becomes authenticated only by a
   verify_password with the right password and stays so until a logout; a
   verify_password with any other password leaves the session as it was and is
   not answered 200; a row is appended and a history returned only while the
   session is authenticated, the row's user_id being the session's user; an
   update_account or get_history of a session not authenticated is answered
   401 and leaves the table as it was. *)
C15_OnlyWhileAuthenticated ==
    [][/\ session' # session /\ session' # 0 =>
            /\ Serves("verify_password")
            /\ request'.data.password = Str(Password)
            /\ response'.status = 200
            /\ session' = UserId
       /\ session' # session /\ session' = 0 =>
            Serves("logout") /\ response'.status = 200
       /\ Serves("verify_password") /\ request'.data.password # Str(Password) =>
            session' = session /\ response'.status \in {401, 500}
       /\ Serves("verify_password") /\ request'.data.password = Str(Password) =>
            session' = UserId /\ response'.status = 200
       /\ Serves("logout") => session' = 0
       /\ transactions' # transactions =>
            /\ session # 0
            /\ Serves("update_account")
            /\ Len(transactions') = Len(transactions) + 1
            /\ SubSeq(transactions', 1, Len(transactions)) = transactions
            /\ Appended.user_id = session
       /\ Serves("get_history") /\ response'.status = 200 => session # 0
       /\ session = 0 /\ (Serves("update_account") \/ Serves("get_history")) =>
            /\ response'.status = 401
            /\ response'.message = "Authentication required. Please log in."
            /\ transactions' = transactions]_vars

C15_Witness ==
    /\ request.op = "update_account"
    /\ response.op = "update_account"
    /\ response.status = 401
    /\ session = 0
    /\ Len(transactions) = 1
    /\ transactions[1].user_id = UserId

====
